---- MODULE Spec2Model ----
(***************************************************************************)
(* ONTO-NEXUS: the incremental knowledge-graph merge engine of App         *)
(* (mergeGraphData and its callers), the producers that post-process the   *)
(* enrichment collaborator's fragments (services/geminiService), the       *)
(* filtered view, and the force layout of components/KnowledgeGraph.       *)
(*                                                                         *)
(* Numbers of the layout (alpha, coordinates) are fixed point: alpha is in *)
(* thousandths (0.1 is 100), coordinates are whole units.                  *)
(***************************************************************************)
EXTENDS Integers, Sequences, FiniteSets, TLC

-----------------------------------------------------------------------------
(* types.ts: NodeType, GraphNode, GraphLink                                *)

InstanceKinds ==
    {"Person", "Organization", "Location", "Event", "Concept", "Document", "Artifact"}

NodeType == InstanceKinds \cup {"Class"}

\* A GraphNode as the collaborator returns it: no coordinates yet.
RawNode(id, label, type) == [id |-> id, label |-> label, type |-> type]

\* A GraphNode of the canonical graph: x and y are set by the seed or by merge.
GraphNode(id, label, type, x, y) ==
    [id |-> id, label |-> label, type |-> type, x |-> x, y |-> y]

\* A GraphLink.  source and target are ids: the canonical links are only ever
\* handed to d3 as copies, so the object form of an endpoint never reaches them.
\* An absent isOntologyLink (undefined) reads as FALSE everywhere it is used.
GraphLink(source, target, predicate, label, isOntologyLink) ==
    [source |-> source, target |-> target, predicate |-> predicate,
     label |-> label, isOntologyLink |-> isOntologyLink]

\* A link as the collaborator returns it (the response schema has no flag).
RawLink(source, target, predicate, label) ==
    [source |-> source, target |-> target, predicate |-> predicate, label |-> label]

SeqRange(s) == {s[i] : i \in 1..Len(s)}

SeqMap(s, F(_)) == [i \in 1..Len(s) |-> F(s[i])]

NodeIds(nodes) == {nodes[i].id : i \in 1..Len(nodes)}

-----------------------------------------------------------------------------
(* App: the pre-seeded upper ontology                                      *)

StandardClass(k) == GraphNode(k, k, "Class", 0, 0)

STANDARD_CLASSES ==
    << StandardClass("Person"), StandardClass("Organization"),
       StandardClass("Location"), StandardClass("Event"),
       StandardClass("Concept"), StandardClass("Document"),
       StandardClass("Artifact") >>

EmptyGraph == [nodes |-> << >>, links |-> << >>]

SeedGraph == [nodes |-> STANDARD_CLASSES, links |-> << >>]

-----------------------------------------------------------------------------
(* services/geminiService: post-processing of the collaborator's fragments *)

HasTypeLink(links, id) ==
    \E k \in 1..Len(links) : links[k].source = id /\ links[k].predicate = "rdf:type"

TypeLink(node) == GraphLink(node.id, node.type, "rdf:type", "type", TRUE)

\* nodes.forEach of the heuristic linking: every non-Class node without an
\* outgoing rdf:type link among the links so far gets one to its own type.
RECURSIVE HeuristicLinks(_, _, _)
HeuristicLinks(nodes, i, links) ==
    IF i > Len(nodes) THEN links
    ELSE IF nodes[i].type = "Class" \/ HasTypeLink(links, nodes[i].id)
         THEN HeuristicLinks(nodes, i + 1, links)
         ELSE HeuristicLinks(nodes, i + 1, Append(links, TypeLink(nodes[i])))

Flagged(l, flag) == GraphLink(l.source, l.target, l.predicate, l.label, flag)

\* Array.isArray(data.nodes) ? data.nodes : []  (and the same for links).  A
\* field of the parsed response that is not an array is an object that holds
\* the items under its keys.
NodesOf(data) == IF data.nodesIsArray THEN data.nodes ELSE << >>

LinksOf(data) == IF data.linksIsArray THEN data.links ELSE << >>

\* extractKnowledgeGraph on a parsed response: the two fields are normalised,
\* then comes the heuristic linking, then the flag of every link is
\* recomputed from its predicate and existingClasses.
extractKnowledgeGraph(data, existingClasses) ==
    LET raw   == SeqMap(LinksOf(data), LAMBDA l : Flagged(l, FALSE))
        links == HeuristicLinks(NodesOf(data), 1, raw)
    IN  [nodes |-> NodesOf(data),
         links |-> SeqMap(links, LAMBDA l :
                     Flagged(l, \/ l.predicate = "rdf:type"
                                \/ l.predicate = "rdfs:subClassOf"
                                \/ l.target \in existingClasses))]

\* performShaclScan on a parsed response: heuristic linking only; the links
\* of the response keep their absent flag.
performShaclScan(data) ==
    [nodes |-> NodesOf(data),
     links |-> HeuristicLinks(NodesOf(data), 1,
                 SeqMap(LinksOf(data), LAMBDA l : Flagged(l, FALSE)))]

\* generateDomainOntology and generateOntologyLayer on a parsed response:
\* every link is flagged an ontology link, nothing else is done.
generateDomainOntology(data) ==
    [nodes |-> NodesOf(data),
     links |-> SeqMap(LinksOf(data), LAMBDA l : Flagged(l, TRUE))]

generateOntologyLayer(data) ==
    [nodes |-> NodesOf(data),
     links |-> SeqMap(LinksOf(data), LAMBDA l : Flagged(l, TRUE))]

\* What every producer returns when the call fails inside its try block.
EmptyFragment == [nodes |-> << >>, links |-> << >>]

-----------------------------------------------------------------------------
(* App.mergeGraphData                                                      *)

\* The dedup signature of a link: the template string `${s}-${t}-${predicate}`.
LinkSig(l) == l.source \o "-" \o l.target \o "-" \o l.predicate

\* mergeGraphData without the filter of the ids the graph holds.
uniqueNewNodesUnfiltered(prev, newNodes) == newNodes

uniqueNewNodes(prev, newNodes) ==
    SelectSeq(newNodes, LAMBDA n : n.id \notin NodeIds(prev.nodes))

uniqueNewLinks(prev, newLinks) ==
    LET existingLinkSigs == {LinkSig(prev.links[i]) : i \in 1..Len(prev.links)}
    IN  SelectSeq(newLinks, LAMBDA l : LinkSig(l) \notin existingLinkSigs)

\* n.x = 400 + (Math.random() - 0.5) * 50, n.y = 300 + ...: rnd[i] is the pair
\* of offsets drawn for the i-th new node.
PlaceNodes(nodes, rnd) ==
    [i \in 1..Len(nodes) |->
       GraphNode(nodes[i].id, nodes[i].label, nodes[i].type,
                 400 + rnd[i][1], 300 + rnd[i][2])]

\* A merge in which a node offered again overwrites the label and the kind
\* of the stored node of its id.
mergeGraphDataLastWriteWins(prev, newNodes, newLinks, rnd) ==
    LET addedNodes == uniqueNewNodes(prev, newNodes)
        addedLinks == uniqueNewLinks(prev, newLinks)
        offered(id) == newNodes[CHOOSE i \in 1..Len(newNodes) :
                          /\ newNodes[i].id = id
                          /\ \A j \in (i + 1)..Len(newNodes) : newNodes[j].id # id]
    IN  [nodes |-> SeqMap(prev.nodes, LAMBDA n :
                     IF n.id \in NodeIds(newNodes)
                     THEN GraphNode(n.id, offered(n.id).label, offered(n.id).type,
                                    n.x, n.y)
                     ELSE n)
                   \o PlaceNodes(addedNodes, rnd),
         links |-> prev.links \o addedLinks]

\* The state updater of mergeGraphData: the next canonical graph.
mergeGraphData(prev, newNodes, newLinks, rnd) ==
    LET addedNodes == uniqueNewNodes(prev, newNodes)
        addedLinks == uniqueNewLinks(prev, newLinks)
    IN  IF Len(addedNodes) = 0 /\ Len(addedLinks) = 0
        THEN prev
        ELSE [nodes |-> prev.nodes \o PlaceNodes(addedNodes, rnd),
              links |-> prev.links \o addedLinks]

\* The value mergeGraphData returns (hasChanges).
hasChanges(prev, newNodes, newLinks) ==
    ~(Len(uniqueNewNodes(prev, newNodes)) = 0 /\ Len(uniqueNewLinks(prev, newLinks)) = 0)

-----------------------------------------------------------------------------
(* App: the filtered view                                                  *)

filteredNodes(graph, show, typeFilter) ==
    SelectSeq(graph.nodes, LAMBDA node :
        /\ ~(~show /\ node.type = "Class")
        /\ ~(typeFilter # "ALL" /\ node.type # typeFilter))

\* The links of the canonical graph, whatever the view's nodes are.
filteredLinksUnchecked(graph, show, typeFilter) == graph.links

filteredLinks(graph, show, typeFilter) ==
    LET shown == NodeIds(filteredNodes(graph, show, typeFilter))
    IN  SelectSeq(graph.links, LAMBDA link :
            link.source \in shown /\ link.target \in shown)

-----------------------------------------------------------------------------
(* components/KnowledgeGraph: the d3 force simulation                      *)

\* simulation.alpha(0.1): the energy every update effect sets.
AlphaReheat == 100

\* d3.forceSimulation(): a new simulation starts at alpha 1 with its timer on.
AlphaFull == 1000

\* d3's alphaMin: the timer stops once alpha has fallen below it.
AlphaMin == 1

\* simulation.alphaTarget(0.3) of dragstarted.
AlphaTargetDrag == 300

\* One step of the model stands for a run of d3 ticks, after which a quarter
\* of the distance between alpha and alphaTarget is left.
DecayDiv == 4

\* fx / fy of a node no drag holds (null or absent): outside every coordinate.
null == 0 - 1

SimNode(n, x, y, vx, vy) ==
    [id |-> n.id, label |-> n.label, type |-> n.type,
     x |-> x, y |-> y, vx |-> vx, vy |-> vy, fx |-> null, fy |-> null]

\* The component is not mounted: there is no simulation.
NoSimulation ==
    [mounted |-> FALSE, nodes |-> << >>, links |-> << >>,
     alpha |-> 0, alphaTarget |-> 0, running |-> FALSE]

\* The init effect: a fresh simulation without nodes or link force.
InitEffect ==
    [mounted |-> TRUE, nodes |-> << >>, links |-> << >>,
     alpha |-> AlphaFull, alphaTarget |-> 0, running |-> TRUE]

\* oldNodesMap.get(id): the Map keeps the last node of an id.
OldNode(old, id) ==
    old[CHOOSE i \in 1..Len(old) :
          old[i].id = id /\ \A j \in (i + 1)..Len(old) : old[j].id # id]

\* An update effect that starts every node at its canonical position.
UpdateEffectFromCanonical(sim, nodes, links) ==
    [sim EXCEPT
       !.nodes = SeqMap(nodes, LAMBDA n : SimNode(n, n.x, n.y, 0, 0)),
       !.links = links,
       !.alpha = AlphaReheat,
       !.running = TRUE]

\* The update effect: the props are copied, x, y, vx, vy are carried over from
\* the simulation's node of the same id, a node new to the simulation starts
\* at its canonical position with zero velocity, and alpha is set to 0.1.
UpdateEffect(sim, nodes, links) ==
    [sim EXCEPT
       !.nodes = SeqMap(nodes, LAMBDA n :
                    IF n.id \in NodeIds(sim.nodes)
                    THEN LET old == OldNode(sim.nodes, n.id)
                         IN  SimNode(n, old.x, old.y, old.vx, old.vy)
                    ELSE SimNode(n, n.x, n.y, 0, 0)),
       !.links = links,
       !.alpha = AlphaReheat,
       !.running = TRUE]

\* What a render of App leaves of the simulation: KnowledgeGraph is mounted on
\* the graph tab only, it receives fresh filteredNodes / filteredLinks arrays
\* on every render, so its update effect runs on every render.
Render(sim, tab, graph, show, typeFilter) ==
    IF tab # "graph" THEN NoSimulation
    ELSE UpdateEffect(IF sim.mounted THEN sim ELSE InitEffect,
                      filteredNodes(graph, show, typeFilter),
                      filteredLinks(graph, show, typeFilter))

-----------------------------------------------------------------------------
(* Bounds of the model                                                     *)

\* loadIntel runs at most this many times (the mount effect is the first).
MaxSessions == 2

\* Steps of the simulation timer in one behaviour.
MaxTicks == 2

\* generateOntologyLayer calls pending at once.
MaxLayerCalls == 1

\* Nodes and links the canonical graph may hold beyond the seed.
MaxNodes == 2

MaxLinks == 3

\* Articles of one feed.
MaxNews == 1

-----------------------------------------------------------------------------
(* State                                                                   *)

VARIABLES
    graphData,        \* App: the canonical graph {nodes, links}
    processingIds,    \* App: ids of the articles being analyzed
    nodeTypeFilter,   \* App: 'ALL' or a NodeType
    showOntology,     \* App: the ontology layer toggle
    searchTerm,       \* App: the search box
    selectedNode,     \* App: id of the selected node, "" for null
    ontologyLoaded,   \* App
    activeTab,        \* App: 'graph' | 'shacl' | 'ontology'
    loading,          \* App
    isShaclScanning,  \* App
    apiKey,           \* process.env.API_KEY is set
    session,          \* number of loadIntel runs so far
    calls,            \* awaited calls of the collaborator that have not settled
    queues,           \* processBackgroundQueue loops waiting on their timer
    simulation,       \* KnowledgeGraph: simulationRef.current
    drag,             \* KnowledgeGraph: the drag gesture in progress
    ticks,            \* steps the simulation timer has made
    exported,         \* the JSON-LD document the step handed to the download
    report            \* what mergeGraphData returned in the step

appVars ==
    << graphData, processingIds, nodeTypeFilter, showOntology, searchTerm,
       selectedNode, ontologyLoaded, activeTab, loading, isShaclScanning >>

vars ==
    << graphData, processingIds, nodeTypeFilter, showOntology, searchTerm,
       selectedNode, ontologyLoaded, activeTab, loading, isShaclScanning,
       apiKey, session, calls, queues, simulation, drag, ticks, exported, report >>

NoDrag == [on |-> FALSE, index |-> 0, id |-> "", stale |-> "live"]

StandardIds == NodeIds(STANDARD_CLASSES)

Fits(graph) ==
    /\ Len(graph.nodes) <= Len(STANDARD_CLASSES) + MaxNodes
    /\ Len(graph.links) <= MaxLinks

\* A commit of App: KnowledgeGraph re-renders with the new view.  Every node
\* object of the simulation is replaced, so the subject a drag gesture holds is
\* no longer a node of the simulation ("node"); once the component has been
\* unmounted the handlers of the gesture hold the stopped simulation too
\* ("simulation").
Commit ==
    /\ simulation' = Render(simulation, activeTab', graphData', showOntology',
                            nodeTypeFilter')
    /\ drag' = IF ~drag.on THEN drag
               ELSE IF activeTab' # "graph" \/ ~simulation.mounted
                       \/ drag.stale = "simulation"
               THEN [drag EXCEPT !.stale = "simulation"]
               ELSE [drag EXCEPT !.stale = "node"]
    /\ exported' = << >>

\* A state setter that stores the value it already holds schedules no render.
CommitIfChanged ==
    IF appVars' # appVars THEN Commit
    ELSE /\ UNCHANGED << simulation, drag >>
         /\ exported' = << >>

\* The offsets Math.random can give one new node, per merge.
JitterPairs == { << 0 - 25, 0 - 25 >>, << 24, 10 >> }

Rolls(prev, newNodes) ==
    [1..Len(uniqueNewNodes(prev, newNodes)) -> JitterPairs]

\* The step called mergeGraphData with so many nodes and links, and this is
\* what it returned.
MergeReport(prev, newNodes, newLinks) ==
    [called |-> TRUE, nodes |-> Len(newNodes), links |-> Len(newLinks),
     hasChanges |-> hasChanges(prev, newNodes, newLinks)]

\* The step did not call mergeGraphData.
NoReport == [called |-> FALSE, nodes |-> 0, links |-> 0, hasChanges |-> FALSE]

-----------------------------------------------------------------------------
(* App.loadIntel                                                           *)

\* loadIntel without the reset of the canonical graph.
LoadIntelKeepingGraph ==
    /\ session < MaxSessions
    /\ session' = session + 1
    /\ loading' = TRUE
    /\ processingIds' = {}
    /\ ontologyLoaded' = FALSE
    /\ calls' = calls \cup {[kind |-> "domain", sess |-> session + 1]}
    /\ report' = NoReport
    /\ UNCHANGED << graphData, nodeTypeFilter, showOntology, searchTerm,
                    selectedNode, activeTab, isShaclScanning, apiKey, queues,
                    ticks >>
    /\ Commit

\* loadIntel up to its first await: the session is reset and the domain
\* ontology is requested.  (The mount effect, the topic form and the refresh
\* button all run it.)
LoadIntel ==
    /\ session < MaxSessions
    /\ session' = session + 1
    /\ loading' = TRUE
    /\ processingIds' = {}
    /\ graphData' = SeedGraph
    /\ ontologyLoaded' = FALSE
    /\ calls' = calls \cup {[kind |-> "domain", sess |-> session + 1]}
    /\ report' = NoReport
    /\ UNCHANGED << nodeTypeFilter, showOntology, searchTerm, selectedNode,
                    activeTab, isShaclScanning, apiKey, queues, ticks >>
    /\ Commit

\* generateDomainOntology throws before its try block when there is no key:
\* loadIntel's catch raises the alert and its finally clears loading.
LoadIntelFailed(c) ==
    /\ c \in calls /\ c.kind = "domain" /\ ~apiKey
    /\ calls' = calls \ {c}
    /\ loading' = FALSE
    /\ report' = NoReport
    /\ UNCHANGED << graphData, processingIds, nodeTypeFilter, showOntology,
                    searchTerm, selectedNode, ontologyLoaded, activeTab,
                    isShaclScanning, apiKey, session, queues, ticks >>
    /\ Commit

\* loadIntel from the domain ontology's answer to the await of the feed.
LoadIntelOntology(c, data, rnd) ==
    LET tBox == generateDomainOntology(data)
        ontologyClassIds ==
            StandardIds \cup
            {tBox.nodes[i].id : i \in {j \in 1..Len(tBox.nodes) :
                                          tBox.nodes[j].type = "Class"}}
    IN  /\ c \in calls /\ c.kind = "domain" /\ apiKey
        /\ IF Len(tBox.nodes) > 0
           THEN /\ graphData' = mergeGraphData(graphData, tBox.nodes, tBox.links, rnd)
                /\ ontologyLoaded' = TRUE
                /\ report' = MergeReport(graphData, tBox.nodes, tBox.links)
           ELSE /\ UNCHANGED << graphData, ontologyLoaded >>
                /\ report' = NoReport
        /\ Fits(graphData')
        /\ calls' = (calls \ {c}) \cup
                    {[kind |-> "news", sess |-> c.sess, ctx |-> ontologyClassIds]}
        /\ UNCHANGED << processingIds, nodeTypeFilter, showOntology, searchTerm,
                        selectedNode, activeTab, loading, isShaclScanning,
                        apiKey, session, queues, ticks >>
        /\ CommitIfChanged

\* loadIntel from the feed's answer to its end: the articles are stored and
\* processBackgroundQueue runs up to its first timer.
LoadIntelFeed(c, news) ==
    /\ c \in calls /\ c.kind = "news"
    /\ calls' = calls \ {c}
    /\ queues' = IF Len(news) = 0 THEN queues
                 ELSE queues \cup {[sess |-> c.sess, items |-> news, i |-> 1,
                                    ctx |-> c.ctx, wait |-> 0]}
    /\ loading' = FALSE
    /\ report' = NoReport
    /\ UNCHANGED << graphData, processingIds, nodeTypeFilter, showOntology,
                    searchTerm, selectedNode, ontologyLoaded, activeTab,
                    isShaclScanning, apiKey, session, ticks >>
    /\ Commit

-----------------------------------------------------------------------------
(* App.processBackgroundQueue and App.analyzeArticle                       *)

\* setTimeout(r, i === 0 ? 0 : 2000): the delay before every article but the
\* first of a feed, in milliseconds.
PacingDelay == 2000

\* The time that passes in one step of the clock, in milliseconds.
TimeStep == 1000

\* Time passes: every timer that is not yet due comes closer by one step.
Elapse ==
    /\ \E q \in queues : q.wait > 0
    /\ queues' = {[q EXCEPT !.wait = IF q.wait > TimeStep
                                     THEN q.wait - TimeStep ELSE 0] :
                  q \in queues}
    /\ report' = NoReport
    /\ exported' = << >>
    /\ UNCHANGED << appVars, apiKey, session, calls, simulation, drag, ticks >>

\* A loop that passes over the article after the one it has started.
QueueStepSkipping(q) ==
    /\ q \in queues /\ q.wait = 0
    /\ processingIds' = processingIds \cup {q.items[q.i]}
    /\ calls' = calls \cup {[kind |-> "extract", sess |-> q.sess,
                             id |-> q.items[q.i], ctx |-> q.ctx]}
    /\ queues' = IF q.i + 1 < Len(q.items)
                 THEN (queues \ {q}) \cup {[q EXCEPT !.i = q.i + 2,
                                                     !.wait = PacingDelay]}
                 ELSE queues \ {q}
    /\ report' = NoReport
    /\ UNCHANGED << graphData, nodeTypeFilter, showOntology, searchTerm,
                    selectedNode, ontologyLoaded, activeTab, loading,
                    isShaclScanning, apiKey, session, ticks >>
    /\ Commit

\* The timer of a queue fires: analyzeArticle marks the article and awaits
\* extractKnowledgeGraph; the loop goes on to its next timer without waiting
\* for analyzeArticle.
QueueStep(q) ==
    /\ q \in queues /\ q.wait = 0
    /\ processingIds' = processingIds \cup {q.items[q.i]}
    /\ calls' = calls \cup {[kind |-> "extract", sess |-> q.sess,
                             id |-> q.items[q.i], ctx |-> q.ctx]}
    /\ queues' = IF q.i < Len(q.items)
                 THEN (queues \ {q}) \cup {[q EXCEPT !.i = q.i + 1,
                                                     !.wait = PacingDelay]}
                 ELSE queues \ {q}
    /\ report' = NoReport
    /\ UNCHANGED << graphData, nodeTypeFilter, showOntology, searchTerm,
                    selectedNode, ontologyLoaded, activeTab, loading,
                    isShaclScanning, apiKey, session, ticks >>
    /\ Commit

\* analyzeArticle with a failed call rethrown into processBackgroundQueue,
\* whose loop ends there.
AnalyzeArticleRethrowing(c, data, rnd) ==
    LET kg == extractKnowledgeGraph(data, c.ctx)
    IN  /\ c \in calls /\ c.kind = "extract"
        /\ calls' = calls \ {c}
        /\ graphData' = mergeGraphData(graphData, kg.nodes, kg.links, rnd)
        /\ Fits(graphData')
        /\ report' = MergeReport(graphData, kg.nodes, kg.links)
        /\ processingIds' = processingIds \ {c.id}
        /\ queues' = IF Len(kg.nodes) = 0 /\ Len(kg.links) = 0
                     THEN {q \in queues : q.sess # c.sess}
                     ELSE queues
        /\ UNCHANGED << nodeTypeFilter, showOntology, searchTerm, selectedNode,
                        ontologyLoaded, activeTab, loading, isShaclScanning,
                        apiKey, session, ticks >>
        /\ Commit

\* analyzeArticle with the mark cleared at the end of its try block, after a
\* merge that added something, instead of in its finally block.
AnalyzeArticleClearingInTry(c, data, rnd) ==
    LET kg == extractKnowledgeGraph(data, c.ctx)
    IN  /\ c \in calls /\ c.kind = "extract"
        /\ calls' = calls \ {c}
        /\ graphData' = mergeGraphData(graphData, kg.nodes, kg.links, rnd)
        /\ Fits(graphData')
        /\ report' = MergeReport(graphData, kg.nodes, kg.links)
        /\ processingIds' = IF hasChanges(graphData, kg.nodes, kg.links)
                            THEN processingIds \ {c.id}
                            ELSE processingIds
        /\ UNCHANGED << nodeTypeFilter, showOntology, searchTerm, selectedNode,
                        ontologyLoaded, activeTab, loading, isShaclScanning,
                        apiKey, session, queues, ticks >>
        /\ Commit

\* analyzeArticle from the answer of extractKnowledgeGraph to its end: the
\* fragment is merged and the mark is cleared by a new Set.
AnalyzeArticle(c, data, rnd) ==
    LET kg == extractKnowledgeGraph(data, c.ctx)
    IN  /\ c \in calls /\ c.kind = "extract"
        /\ calls' = calls \ {c}
        /\ graphData' = mergeGraphData(graphData, kg.nodes, kg.links, rnd)
        /\ Fits(graphData')
        /\ report' = MergeReport(graphData, kg.nodes, kg.links)
        /\ processingIds' = processingIds \ {c.id}
        /\ UNCHANGED << nodeTypeFilter, showOntology, searchTerm, selectedNode,
                        ontologyLoaded, activeTab, loading, isShaclScanning,
                        apiKey, session, queues, ticks >>
        /\ Commit

-----------------------------------------------------------------------------
(* App.handleShaclScan                                                     *)

\* The form of the SHACL tab is submitted: up to the await of the scan.
HandleShaclScan ==
    /\ activeTab = "shacl" /\ ~isShaclScanning
    /\ isShaclScanning' = TRUE
    /\ calls' = calls \cup {[kind |-> "shacl"]}
    /\ report' = NoReport
    /\ UNCHANGED << graphData, processingIds, nodeTypeFilter, showOntology,
                    searchTerm, selectedNode, ontologyLoaded, activeTab, loading,
                    apiKey, session, queues, ticks >>
    /\ Commit

\* performShaclScan throws before its try block when there is no key.
ShaclScanFailed(c) ==
    /\ c \in calls /\ c.kind = "shacl" /\ ~apiKey
    /\ calls' = calls \ {c}
    /\ isShaclScanning' = FALSE
    /\ report' = NoReport
    /\ UNCHANGED << graphData, processingIds, nodeTypeFilter, showOntology,
                    searchTerm, selectedNode, ontologyLoaded, activeTab, loading,
                    apiKey, session, queues, ticks >>
    /\ Commit

\* handleShaclScan from the scan's answer to its end.
ShaclScanDone(c, data, rnd) ==
    LET result == performShaclScan(data)
    IN  /\ c \in calls /\ c.kind = "shacl" /\ apiKey
        /\ calls' = calls \ {c}
        /\ IF Len(result.nodes) > 0
           THEN /\ graphData' = mergeGraphData(graphData, result.nodes,
                                               result.links, rnd)
                /\ report' = MergeReport(graphData, result.nodes, result.links)
                /\ activeTab' = "graph"
           ELSE /\ UNCHANGED << graphData, activeTab >>
                /\ report' = NoReport
        /\ Fits(graphData')
        /\ isShaclScanning' = FALSE
        /\ UNCHANGED << processingIds, nodeTypeFilter, showOntology, searchTerm,
                        selectedNode, ontologyLoaded, loading, apiKey, session,
                        queues, ticks >>
        /\ Commit

-----------------------------------------------------------------------------
(* App.toggleOntologyLayer                                                 *)

LayerCalls == {c \in calls : c.kind = "layer"}

\* The toggle when the layer is shown or the ontology is loaded: it flips.
ToggleOntologyLayer ==
    /\ activeTab = "graph"
    /\ ~(~showOntology /\ ~ontologyLoaded /\ Len(graphData.nodes) > 0)
    /\ showOntology' = ~showOntology
    /\ report' = NoReport
    /\ UNCHANGED << graphData, processingIds, nodeTypeFilter, searchTerm,
                    selectedNode, ontologyLoaded, activeTab, loading,
                    isShaclScanning, apiKey, session, calls, queues, ticks >>
    /\ Commit

\* The toggle when the layer is hidden and no ontology was loaded: up to the
\* await of generateOntologyLayer.
ToggleOntologyLayerInfer ==
    /\ activeTab = "graph"
    /\ ~showOntology /\ ~ontologyLoaded /\ Len(graphData.nodes) > 0
    /\ Cardinality(LayerCalls) < MaxLayerCalls
    /\ calls' = calls \cup {[kind |-> "layer", n |-> Cardinality(LayerCalls) + 1]}
    /\ report' = NoReport
    /\ UNCHANGED << graphData, processingIds, nodeTypeFilter, showOntology,
                    searchTerm, selectedNode, ontologyLoaded, activeTab, loading,
                    isShaclScanning, apiKey, session, queues, ticks >>
    /\ Commit

\* generateOntologyLayer throws before its try block when there is no key: the
\* catch raises the alert, and the toggle still shows the layer.
OntologyLayerFailed(c) ==
    /\ c \in calls /\ c.kind = "layer" /\ ~apiKey
    /\ calls' = calls \ {c}
    /\ showOntology' = TRUE
    /\ report' = NoReport
    /\ UNCHANGED << graphData, processingIds, nodeTypeFilter, searchTerm,
                    selectedNode, ontologyLoaded, activeTab, loading,
                    isShaclScanning, apiKey, session, queues, ticks >>
    /\ Commit

\* toggleOntologyLayer from the layer's answer to its end; showOntology is the
\* value the handler captured (false), so the layer is shown.
OntologyLayerDone(c, data, rnd) ==
    LET tBox == generateOntologyLayer(data)
    IN  /\ c \in calls /\ c.kind = "layer" /\ apiKey
        /\ calls' = calls \ {c}
        /\ graphData' = mergeGraphData(graphData, tBox.nodes, tBox.links, rnd)
        /\ Fits(graphData')
        /\ report' = MergeReport(graphData, tBox.nodes, tBox.links)
        /\ ontologyLoaded' = TRUE
        /\ showOntology' = TRUE
        /\ UNCHANGED << processingIds, nodeTypeFilter, searchTerm, selectedNode,
                        activeTab, loading, isShaclScanning, apiKey, session,
                        queues, ticks >>
        /\ Commit

-----------------------------------------------------------------------------
(* App: the controls of the graph tab, the tabs and the export             *)

SetNodeTypeFilter(k) ==
    /\ activeTab = "graph" /\ k # nodeTypeFilter
    /\ nodeTypeFilter' = k
    /\ report' = NoReport
    /\ UNCHANGED << graphData, processingIds, showOntology, searchTerm,
                    selectedNode, ontologyLoaded, activeTab, loading,
                    isShaclScanning, apiKey, session, calls, queues, ticks >>
    /\ Commit

SetSearchTerm(t) ==
    /\ activeTab = "graph" /\ t # searchTerm
    /\ searchTerm' = t
    /\ report' = NoReport
    /\ UNCHANGED << graphData, processingIds, nodeTypeFilter, showOntology,
                    selectedNode, ontologyLoaded, activeTab, loading,
                    isShaclScanning, apiKey, session, calls, queues, ticks >>
    /\ Commit

\* A click on node i of the layout: onNodeClick(d) stores the simulation's
\* node object, which every render replaces, so the state always changes.
NodeClick(i) ==
    /\ simulation.mounted /\ i \in 1..Len(simulation.nodes)
    /\ selectedNode' = simulation.nodes[i].id
    /\ report' = NoReport
    /\ UNCHANGED << graphData, processingIds, nodeTypeFilter, showOntology,
                    searchTerm, ontologyLoaded, activeTab, loading,
                    isShaclScanning, apiKey, session, calls, queues, ticks >>
    /\ Commit

\* A click on the background, or the close button: onNodeClick(null).
ClearSelection ==
    /\ activeTab = "graph" /\ selectedNode # ""
    /\ selectedNode' = ""
    /\ report' = NoReport
    /\ UNCHANGED << graphData, processingIds, nodeTypeFilter, showOntology,
                    searchTerm, ontologyLoaded, activeTab, loading,
                    isShaclScanning, apiKey, session, calls, queues, ticks >>
    /\ Commit

SetActiveTab(t) ==
    /\ t # activeTab
    /\ activeTab' = t
    /\ report' = NoReport
    /\ UNCHANGED << graphData, processingIds, nodeTypeFilter, showOntology,
                    searchTerm, selectedNode, ontologyLoaded, loading,
                    isShaclScanning, apiKey, session, calls, queues, ticks >>
    /\ Commit

\* An export object built from the links that point at the node.
ExportObjectOfIncoming(node, links) ==
    LET inc   == SelectSeq(links, LAMBDA l : l.target = node.id)
        preds == {inc[i].predicate : i \in 1..Len(inc)}
        last(p) == CHOOSE i \in 1..Len(inc) :
                      /\ inc[i].predicate = p
                      /\ \A j \in (i + 1)..Len(inc) : inc[j].predicate # p
    IN  [k \in {"@id", "@type", "name"} \cup preds |->
           IF k \in preds THEN inc[last(k)].source
           ELSE IF k = "@id" THEN node.id
           ELSE IF k = "@type" THEN node.type
           ELSE node.label]

\* The properties of one node's export object after the spread of the reduce
\* over its outgoing links: a later link of a predicate overwrites an earlier.
ExportObject(node, links) ==
    LET out   == SelectSeq(links, LAMBDA l : l.source = node.id)
        preds == {out[i].predicate : i \in 1..Len(out)}
        last(p) == CHOOSE i \in 1..Len(out) :
                      /\ out[i].predicate = p
                      /\ \A j \in (i + 1)..Len(out) : out[j].predicate # p
    IN  [k \in {"@id", "@type", "name"} \cup preds |->
           IF k \in preds THEN out[last(k)].target
           ELSE IF k = "@id" THEN node.id
           ELSE IF k = "@type" THEN node.type
           ELSE node.label]

\* handleExportJSONLD: the "@graph" of the document; no state of App is set.
handleExportJSONLD(graph) ==
    [i \in 1..Len(graph.nodes) |-> ExportObject(graph.nodes[i], graph.links)]

ExportJSONLD ==
    /\ exported' = handleExportJSONLD(graphData)
    /\ report' = NoReport
    /\ UNCHANGED << graphData, processingIds, nodeTypeFilter, showOntology,
                    searchTerm, selectedNode, ontologyLoaded, activeTab, loading,
                    isShaclScanning, apiKey, session, calls, queues, ticks,
                    simulation, drag >>

-----------------------------------------------------------------------------
(* components/KnowledgeGraph: the timer and the drag handlers              *)

\* What the forces add to the x velocity of a free node in one step.
Drift == 1

\* One step of the timer: alpha moves toward alphaTarget, a node a drag holds
\* sits at (fx, fy) with no velocity, every other node moves by its velocity.
TickNode(n) ==
    IF n.fx # null
    THEN [n EXCEPT !.x = n.fx, !.y = n.fy, !.vx = 0, !.vy = 0]
    ELSE [n EXCEPT !.x = n.x + Drift, !.vx = Drift]

TickAlpha(sim) ==
    sim.alphaTarget + ((sim.alpha - sim.alphaTarget) \div DecayDiv)

\* A timer that moves the node objects of the canonical graph themselves.
TickCanonical ==
    /\ simulation.mounted /\ simulation.running
    /\ ticks < MaxTicks
    /\ ticks' = ticks + 1
    /\ simulation' = [simulation EXCEPT
                        !.alpha = TickAlpha(simulation),
                        !.running = TickAlpha(simulation) >= AlphaMin,
                        !.nodes = SeqMap(simulation.nodes, TickNode)]
    /\ graphData' = [graphData EXCEPT
                       !.nodes = SeqMap(graphData.nodes, LAMBDA n :
                                   [n EXCEPT !.x = n.x + Drift])]
    /\ report' = NoReport
    /\ exported' = << >>
    /\ UNCHANGED << processingIds, nodeTypeFilter, showOntology, searchTerm,
                    selectedNode, ontologyLoaded, activeTab, loading,
                    isShaclScanning, apiKey, session, calls, queues, drag >>

Tick ==
    /\ simulation.mounted /\ simulation.running
    /\ ticks < MaxTicks
    /\ ticks' = ticks + 1
    /\ simulation' = [simulation EXCEPT
                        !.alpha = TickAlpha(simulation),
                        !.running = TickAlpha(simulation) >= AlphaMin,
                        !.nodes = SeqMap(simulation.nodes, TickNode)]
    /\ report' = NoReport
    /\ exported' = << >>
    /\ UNCHANGED << appVars, apiKey, session, calls, queues, drag >>

\* dragstarted on node i: the simulation is restarted toward alphaTarget 0.3
\* and the node is pinned where it is.
DragStarted(i) ==
    /\ simulation.mounted /\ ~drag.on
    /\ i \in 1..Len(simulation.nodes)
    /\ simulation' = [simulation EXCEPT
                        !.alphaTarget = AlphaTargetDrag,
                        !.running = TRUE,
                        !.nodes[i].fx = simulation.nodes[i].x,
                        !.nodes[i].fy = simulation.nodes[i].y]
    /\ drag' = [on |-> TRUE, index |-> i, id |-> simulation.nodes[i].id,
                stale |-> "live"]
    /\ report' = NoReport
    /\ exported' = << >>
    /\ UNCHANGED << appVars, apiKey, session, calls, queues, ticks >>

\* dragged: event.subject is the node object the gesture started on; once a
\* render has replaced the simulation's nodes it is none of them.
Dragged(x, y) ==
    /\ drag.on
    /\ simulation' = IF drag.stale = "live"
                     THEN [simulation EXCEPT !.nodes[drag.index].fx = x,
                                             !.nodes[drag.index].fy = y]
                     ELSE simulation
    /\ report' = NoReport
    /\ exported' = << >>
    /\ UNCHANGED << appVars, apiKey, session, calls, queues, ticks, drag >>

\* dragended: alphaTarget goes back to 0 on the simulation the handler closed
\* over, and the subject is unpinned.
DragEnded ==
    /\ drag.on
    /\ simulation' =
         IF drag.stale = "live"
         THEN [simulation EXCEPT !.alphaTarget = 0,
                                 !.nodes[drag.index].fx = null,
                                 !.nodes[drag.index].fy = null]
         ELSE IF drag.stale = "node"
         THEN [simulation EXCEPT !.alphaTarget = 0]
         ELSE simulation
    /\ drag' = NoDrag
    /\ report' = NoReport
    /\ exported' = << >>
    /\ UNCHANGED << appVars, apiKey, session, calls, queues, ticks >>

-----------------------------------------------------------------------------
(* What the collaborator may answer                                        *)

UN == RawNode("UN", "United Nations", "Organization")

\* The id of UN offered again with another label and kind.
UNAgain == RawNode("UN", "UN", "Person")

Alice == RawNode("Alice", "Alice", "Person")

\* An id that holds the separator of the link signature.
USNavy == RawNode("US-Navy", "US Navy", "Organization")

Vessel == RawNode("Vessel", "Vessel", "Class")

\* SecurityCouncil is the id of no node.
MemberOfCouncil == RawLink("UN", "SecurityCouncil", "org:memberOf", "member of")

AliceMemberOfUN == RawLink("Alice", "UN", "org:memberOf", "member of")

AliceTypeUN == RawLink("Alice", "UN", "rdf:type", "type")

\* Its signature is the signature of (US-Navy, Organization, rdf:type).
USTypeNavy == RawLink("US", "Navy-Organization", "rdf:type", "type")

VesselSubArtifact == RawLink("Vessel", "Artifact", "rdfs:subClassOf", "subclass of")

\* A parsed response: its two fields, and whether each is an array.
ParsedResponse(nodes, links, nodesIsArray, linksIsArray) ==
    [nodes |-> nodes, links |-> links,
     nodesIsArray |-> nodesIsArray, linksIsArray |-> linksIsArray]

Response(nodes, links) == ParsedResponse(nodes, links, TRUE, TRUE)

\* What extractKnowledgeGraph's call may answer: a failed call or a parse
\* failure is the answer without nodes and links.
FeedAnswers ==
    { Response(<< >>, << >>),
      Response(<< UN >>, << MemberOfCouncil >>),
      Response(<< Alice, UN >>, << AliceMemberOfUN >>),
      Response(<< Alice, UN >>, << AliceTypeUN >>),
      Response(<< >>, << USTypeNavy >>) }

\* What performShaclScan's call may answer.
ShaclAnswers ==
    { Response(<< >>, << >>),
      Response(<< UN, UNAgain >>, << >>),
      Response(<< USNavy >>, << >>) }

\* What the two ontology calls may answer: their response schema admits
\* Class nodes only.
OntologyAnswers ==
    { Response(<< >>, << >>),
      Response(<< Vessel >>, << VesselSubArtifact >>),
      Response(<< Vessel >>, << VesselSubArtifact, VesselSubArtifact >>) }

\* The answers drawn where the layout is followed step by step.
LayoutFeedAnswers ==
    { Response(<< >>, << >>),
      Response(<< Alice, UN >>, << AliceMemberOfUN, AliceTypeUN >>) }

LayoutOntologyAnswers == { Response(<< >>, << >>) }

\* ontologyClassIds as loadIntel can compute it from these answers.
Contexts == {StandardIds, StandardIds \cup {"Vessel"}}

\* fetchGlobalIntel: the ids are news-<time>-<index>, or the one mock article
\* when the call failed.
Article(sess, i) == << "news", sess, i >>

MockArticle == << "mock", 0, 1 >>

Feeds(sess) ==
    {[i \in 1..k |-> Article(sess, i)] : k \in 0..MaxNews} \cup {<< MockArticle >>}

TypeFilters == {"ALL"} \cup InstanceKinds

\* The values the controls are given in a behaviour.
FilterChoices == {"ALL", "Person"}

SearchTerms == {"", "un"}

DataTabs == {"graph", "shacl"}

LayoutTabs == {"graph", "ontology"}

\* The node a gesture grabs, and where it is dragged to.
DragTargets == {1}

DragPoints == { << 410, 310 >> }

-----------------------------------------------------------------------------
(* The application                                                         *)

\* The state once App has mounted: KnowledgeGraph has run its two effects on
\* the empty graph, and the mount effect has run loadIntel to its first await.
Init ==
    /\ graphData = SeedGraph
    /\ processingIds = {}
    /\ nodeTypeFilter = "ALL"
    /\ showOntology = TRUE
    /\ searchTerm = ""
    /\ selectedNode = ""
    /\ ontologyLoaded = FALSE
    /\ activeTab = "graph"
    /\ loading = TRUE
    /\ isShaclScanning = FALSE
    /\ apiKey \in BOOLEAN
    /\ session = 1
    /\ calls = {[kind |-> "domain", sess |-> 1]}
    /\ queues = {}
    /\ simulation = Render(Render(NoSimulation, "graph", EmptyGraph, TRUE, "ALL"),
                           "graph", SeedGraph, TRUE, "ALL")
    /\ drag = NoDrag
    /\ ticks = 0
    /\ exported = << >>
    /\ report = NoReport

-----------------------------------------------------------------------------
(* The data flow of App: loadIntel, the background queue, the SHACL scan    *)
(* and the ontology layer, with the renders they schedule.                  *)

Next ==
    \/ LoadIntel
    \/ \E c \in calls : LoadIntelFailed(c)
    \/ \E c \in calls, data \in OntologyAnswers :
          \E rnd \in Rolls(graphData, data.nodes) : LoadIntelOntology(c, data, rnd)
    \/ \E c \in calls :
          c.kind = "news" /\ \E news \in Feeds(c.sess) : LoadIntelFeed(c, news)
    \/ \E q \in queues : QueueStep(q)
    \/ \E c \in calls, data \in FeedAnswers :
          \E rnd \in Rolls(graphData, data.nodes) : AnalyzeArticle(c, data, rnd)
    \/ HandleShaclScan
    \/ \E c \in calls : ShaclScanFailed(c)
    \/ \E c \in calls, data \in ShaclAnswers :
          \E rnd \in Rolls(graphData, data.nodes) : ShaclScanDone(c, data, rnd)
    \/ ToggleOntologyLayer
    \/ ToggleOntologyLayerInfer
    \/ \E c \in calls : OntologyLayerFailed(c)
    \/ \E c \in calls, data \in OntologyAnswers :
          \E rnd \in Rolls(graphData, data.nodes) : OntologyLayerDone(c, data, rnd)
    \/ \E t \in DataTabs : SetActiveTab(t)

Spec == Init /\ [][Next]_vars

-----------------------------------------------------------------------------
(* The view and the layout: one feed of one article per session, the        *)
(* controls of the graph tab, the export, the timer and the drag gesture.   *)

InitLayout == Init /\ apiKey

NextLayout ==
    \/ LoadIntel
    \/ \E c \in calls, data \in LayoutOntologyAnswers :
          \E rnd \in Rolls(graphData, data.nodes) : LoadIntelOntology(c, data, rnd)
    \/ \E c \in calls :
          c.kind = "news" /\ LoadIntelFeed(c, << Article(c.sess, 1) >>)
    \/ \E q \in queues : QueueStep(q)
    \/ \E c \in calls, data \in LayoutFeedAnswers :
          \E rnd \in Rolls(graphData, data.nodes) : AnalyzeArticle(c, data, rnd)
    \/ ToggleOntologyLayer
    \/ ToggleOntologyLayerInfer
    \/ \E c \in calls, data \in LayoutOntologyAnswers :
          \E rnd \in Rolls(graphData, data.nodes) : OntologyLayerDone(c, data, rnd)
    \/ \E k \in FilterChoices : SetNodeTypeFilter(k)
    \/ \E t \in SearchTerms : SetSearchTerm(t)
    \/ \E t \in LayoutTabs : SetActiveTab(t)
    \/ ExportJSONLD
    \/ Tick
    \/ \E i \in DragTargets : DragStarted(i)
    \/ \E p \in DragPoints : Dragged(p[1], p[2])
    \/ DragEnded

SpecLayout == InitLayout /\ [][NextLayout]_vars

-----------------------------------------------------------------------------
(* The ingestion queue: feeds of several articles, the calls of             *)
(* extractKnowledgeGraph they start and the resets of loadIntel in between. *)

\* Articles of one feed where the queue is followed.
MaxQueue == 2

\* SecurityCouncil and GeneralAssembly are the ids of no node.
MemberOfAssembly == RawLink("UN", "GeneralAssembly", "org:memberOf", "member of")

\* A link whose source is the Class node Organization of the seed.
OrganizationHasMember == RawLink("Organization", "UN", "org:hasMember", "has member")

QueueFeeds(sess) == {[i \in 1..k |-> Article(sess, i)] : k \in 1..MaxQueue}

\* Responses in which nodes, links, or both are objects instead of arrays.
MalformedAnswers ==
    { ParsedResponse(<< Alice, UN >>, << AliceMemberOfUN >>, FALSE, TRUE),
      ParsedResponse(<< Alice, UN >>, << AliceMemberOfUN >>, TRUE, FALSE),
      ParsedResponse(<< Alice, UN >>, << AliceMemberOfUN >>, FALSE, FALSE) }

\* The calls of extractKnowledgeGraph that have not settled.
ExtractCalls == {c \in calls : c.kind = "extract"}

\* The entity an article is about, as the collaborator extracts it from the
\* article's summary.
EntityOf(id) ==
    RawNode("Entity" \o ToString(id[2]) \o ToString(id[3]), "Entity", "Event")

\* The answers that depend on the article the call was made for.
SubjectAnswers(id) == { Response(<< EntityOf(id) >>, << >>) }

\* A call that failed inside extractKnowledgeGraph's try block, or whose text
\* did not parse, is the answer without nodes and links.
QueueAnswers ==
    { Response(<< >>, << >>),
      Response(<< UN >>, << MemberOfCouncil, MemberOfAssembly >>),
      Response(<< UNAgain >>, << >>),
      Response(<< UN >>, << OrganizationHasMember >>) }
    \cup MalformedAnswers

\* Where the queue is followed every new node gets the same offset.
QueueRolls(prev, newNodes) ==
    [1..Len(uniqueNewNodes(prev, newNodes)) -> {<< 24, 10 >>}]

InitQueue == Init /\ apiKey

NextQueue ==
    \/ LoadIntel
    \/ \E c \in calls, data \in LayoutOntologyAnswers :
          \E rnd \in QueueRolls(graphData, data.nodes) : LoadIntelOntology(c, data, rnd)
    \/ \E c \in calls :
          c.kind = "news" /\ \E news \in QueueFeeds(c.sess) : LoadIntelFeed(c, news)
    \/ \E q \in queues : QueueStep(q)
    \/ \E c \in ExtractCalls :
          \E data \in QueueAnswers \cup SubjectAnswers(c.id) :
             \E rnd \in QueueRolls(graphData, data.nodes) : AnalyzeArticle(c, data, rnd)
    \/ Elapse
    \/ ExportJSONLD

SpecQueue == InitQueue /\ [][NextQueue]_vars

\* Every awaited call settles, time passes and every timer of a queue fires.
SettleOntology ==
    \E c \in calls, data \in LayoutOntologyAnswers :
        \E rnd \in QueueRolls(graphData, data.nodes) : LoadIntelOntology(c, data, rnd)

SettleFeed ==
    \E c \in calls :
        c.kind = "news" /\ \E news \in QueueFeeds(c.sess) : LoadIntelFeed(c, news)

TimerFires == \E q \in queues : QueueStep(q)

\* An extraction fails, or it succeeds with the entity of its article.
SettleExtraction ==
    \E c \in ExtractCalls :
        \E data \in {Response(<< >>, << >>)} \cup SubjectAnswers(c.id) :
           \E rnd \in QueueRolls(graphData, data.nodes) : AnalyzeArticle(c, data, rnd)

NextQueueFair ==
    \/ LoadIntel
    \/ SettleOntology
    \/ SettleFeed
    \/ TimerFires
    \/ SettleExtraction
    \/ Elapse

SpecQueueFair ==
    /\ InitQueue /\ [][NextQueueFair]_vars
    /\ WF_vars(SettleOntology) /\ WF_vars(SettleFeed)
    /\ WF_vars(Elapse) /\ WF_vars(TimerFires) /\ WF_vars(SettleExtraction)

-----------------------------------------------------------------------------
(* Properties of the canonical graph                                       *)

\* C1: every link of the canonical graph has a source id and a target id that
\* are each the id of a node of the same graph.
NoDanglingLinks ==
    \A i \in 1..Len(graphData.links) :
        /\ graphData.links[i].source \in NodeIds(graphData.nodes)
        /\ graphData.links[i].target \in NodeIds(graphData.nodes)

\* C2: no two nodes of the canonical graph have the same id.
NodeIdUnique ==
    \A i, j \in 1..Len(graphData.nodes) :
        graphData.nodes[i].id = graphData.nodes[j].id => i = j

\* C3: no two links of the canonical graph have the same
\* (source id, target id, predicate) triple.
LinkTripleUnique ==
    \A i, j \in 1..Len(graphData.links) :
        ( /\ graphData.links[i].source = graphData.links[j].source
          /\ graphData.links[i].target = graphData.links[j].target
          /\ graphData.links[i].predicate = graphData.links[j].predicate )
        => i = j

\* The fragments the four producers can hand to mergeGraphData.
Fragments ==
    {extractKnowledgeGraph(d, ctx) : d \in FeedAnswers \cup LayoutFeedAnswers,
                                     ctx \in Contexts}
    \cup {performShaclScan(d) : d \in ShaclAnswers}
    \cup {generateDomainOntology(d) : d \in OntologyAnswers}
    \cup {generateOntologyLayer(d) : d \in OntologyAnswers}

\* C4: merge is idempotent: merging a batch into the canonical graph twice in
\* succession yields the same graph as merging it once, for every batch and
\* every placement of its new nodes.
MergeIdempotent ==
    \A b \in Fragments :
        \A rnd \in Rolls(graphData, b.nodes) :
            LET once == mergeGraphData(graphData, b.nodes, b.links, rnd)
            IN  \A again \in Rolls(once, b.nodes) :
                    mergeGraphData(once, b.nodes, b.links, again) = once

\* C4, the case: a batch with nodes has just been merged into a graph that
\* already held all of it.
MergedAgain ==
    /\ report.called /\ ~report.hasChanges
    /\ report.nodes > 0 /\ report.links > 0
    /\ \E b \in Fragments :
          /\ Len(b.nodes) > 0 /\ Len(b.links) > 0
          /\ ~hasChanges(graphData, b.nodes, b.links)

\* C6: typing completeness: every non-Class node whose kind is the id of a
\* Class node of the canonical graph has an outgoing rdf:type link.
TypingComplete ==
    \A i \in 1..Len(graphData.nodes) :
        LET node == graphData.nodes[i]
        IN  ( /\ node.type # "Class"
              /\ \E j \in 1..Len(graphData.nodes) :
                    /\ graphData.nodes[j].type = "Class"
                    /\ graphData.nodes[j].id = node.type )
            => HasTypeLink(graphData.links, node.id)

\* C16: merge is append-only and first-write-wins: after a step that calls
\* mergeGraphData the nodes and links held before are the first nodes and
\* links of the graph, each with all its fields as before (label, kind and
\* position), so only the appended nodes were given a position.
AppendOnly ==
    [][ report'.called
        => /\ Len(graphData'.nodes) >= Len(graphData.nodes)
           /\ Len(graphData'.links) >= Len(graphData.links)
           /\ SubSeq(graphData'.nodes, 1, Len(graphData.nodes)) = graphData.nodes
           /\ SubSeq(graphData'.links, 1, Len(graphData.links)) = graphData.links
       ]_vars

\* C16, the case: the id UN, stored with the label United Nations, has just
\* been offered again with another label and kind.
StoredNodeOfferedAgain ==
    /\ report.called /\ ~report.hasChanges /\ report.nodes = 2
    /\ "Alice" \notin NodeIds(graphData.nodes)
    /\ \E i \in 1..Len(graphData.nodes) :
          /\ graphData.nodes[i].id = "UN"
          /\ graphData.nodes[i].label = "United Nations"
          /\ \A j \in 1..Len(graphData.nodes) :
                graphData.nodes[j].id = "UN" => j = i

-----------------------------------------------------------------------------
(* Properties of the view and the layout                                   *)

\* C5: a merge whose delta is empty reports no added node and no added link
\* and leaves the canonical graph unchanged, and, where the step changes
\* nothing of the view either, it does not reheat the layout: the energy of
\* the simulation does not rise.
EmptyDeltaIsNoOp ==
    [][ (report'.called /\ ~report'.hasChanges)
        => /\ graphData' = graphData
           /\ ( /\ showOntology' = showOntology
                /\ nodeTypeFilter' = nodeTypeFilter
                /\ activeTab' = activeTab )
              => simulation'.alpha <= simulation.alpha ]_vars

\* C7: view soundness: under every typeFilter and showOntologyLayer, every
\* link of the filtered view has both endpoints among the view's nodes, and
\* so has every link of the simulation's link force.
ViewSound ==
    /\ \A show \in BOOLEAN, k \in TypeFilters :
          LET shown == NodeIds(filteredNodes(graphData, show, k))
              links == filteredLinks(graphData, show, k)
          IN  \A i \in 1..Len(links) :
                  links[i].source \in shown /\ links[i].target \in shown
    /\ \A i \in 1..Len(simulation.links) :
          /\ simulation.links[i].source \in NodeIds(simulation.nodes)
          /\ simulation.links[i].target \in NodeIds(simulation.nodes)

\* C7, the case: the Person filter is on, and the simulation runs without a
\* link of the canonical graph whose endpoint the filter has removed.
LinkFilteredOut ==
    /\ simulation.mounted /\ nodeTypeFilter = "Person" /\ showOntology
    /\ Len(simulation.nodes) > 0
    /\ \E i \in 1..Len(graphData.links) :
          /\ graphData.links[i].source \in NodeIds(simulation.nodes)
          /\ graphData.links[i].target \in NodeIds(graphData.nodes)
          /\ graphData.links[i].target \notin NodeIds(simulation.nodes)

\* C8: Class nodes are exempt from the type filter: with typeFilter a kind K
\* and the ontology layer shown, the nodes of the view are exactly the nodes
\* of kind K together with all Class nodes.
ClassExemptFromTypeFilter ==
    (nodeTypeFilter # "ALL" /\ showOntology)
    => filteredNodes(graphData, showOntology, nodeTypeFilter)
         = SelectSeq(graphData.nodes, LAMBDA node :
               node.type = nodeTypeFilter \/ node.type = "Class")

\* C9: with the ontology layer hidden the view holds no Class node and no
\* link flagged isOntologyLink, under every typeFilter.
OntologyLayerHidden ==
    ~showOntology
    => \A k \in TypeFilters :
          LET nodes == filteredNodes(graphData, showOntology, k)
              links == filteredLinks(graphData, showOntology, k)
          IN  /\ \A i \in 1..Len(nodes) : nodes[i].type # "Class"
              /\ \A i \in 1..Len(links) : ~links[i].isOntologyLink

\* C10: single writer: the canonical graph changes only in a merge step that
\* reports a change or in the reset of a session; every other step (a filter,
\* the search box, a tick, a drag handler, the export) leaves it as it is.
SingleWriter ==
    [][ graphData' # graphData
        => \/ report'.hasChanges /\ calls' # calls
           \/ session' = session + 1 /\ graphData' = SeedGraph ]_vars

\* C10, the case: the graph holds merged nodes, and the timer has run, a node
\* is being dragged, the type filter is on and the export has just been made.
ReadersAtWork ==
    /\ Len(graphData.nodes) > Len(STANDARD_CLASSES)
    /\ ticks > 0 /\ drag.on /\ nodeTypeFilter # "ALL" /\ ~showOntology
    /\ searchTerm # ""
    /\ exported # << >>

DragPinHeld ==
    /\ (drag.on /\ simulation.mounted)
       => \A i \in 1..Len(simulation.nodes) :
             simulation.nodes[i].id = drag.id
             => simulation.nodes[i].fx # null /\ simulation.nodes[i].fy # null
    /\ ~drag.on
       => \A i \in 1..Len(simulation.nodes) :
             simulation.nodes[i].fx = null /\ simulation.nodes[i].fy = null

-----------------------------------------------------------------------------
(* Properties of the ingestion queue                                       *)

\* C11: the queue is strictly sequential: at most one call of one feed has
\* started and not settled, and at most one id is marked in flight.
StrictlySequential ==
    /\ \A c, d \in ExtractCalls : c.sess = d.sess => c = d
    /\ Cardinality(processingIds) <= 1

ArticleIds == {Article(s, i) : s \in 1..MaxSessions, i \in 1..MaxQueue}

\* C12: every id marked in flight is eventually unmarked, given that every
\* call settles, whatever the call answered; and once no queue is waiting and
\* no extraction is pending the in-flight set is empty.
InFlightEventuallyUnmarked ==
    /\ \A id \in ArticleIds : (id \in processingIds) ~> (id \notin processingIds)
    /\ []((queues = {} /\ ExtractCalls = {}) => processingIds = {})

\* C12, the case: the last extraction of a feed has failed, and nothing is
\* marked any more.
FeedProcessedAfterFailure ==
    /\ report.called /\ report.nodes = 0 /\ report.links = 0
    /\ calls = {} /\ queues = {} /\ processingIds = {}
    /\ session = MaxSessions

\* C13: a failed extraction is contained: the step in which it settles leaves
\* the canonical graph as it is, starts no call (the article is not tried
\* again), and leaves every waiting queue with its remaining articles.
FailureContained ==
    [][ \A c \in ExtractCalls :
          (c \notin calls' /\ report'.called
             /\ report'.nodes = 0 /\ report'.links = 0)
          => /\ graphData' = graphData
             /\ calls' = calls \ {c}
             /\ queues' = queues
             /\ loading' = loading ]_vars

\* C13, the case: the extraction of the first article of a feed has failed
\* while the queue still waits to start the second.
FailedBeforeNextArticle ==
    /\ report.called /\ report.nodes = 0 /\ report.links = 0
    /\ ExtractCalls = {}
    /\ \E q \in queues : q.sess = session /\ q.i = 2

\* C14: stale results are discarded: a call of extractKnowledgeGraph or of
\* generateDomainOntology that was started before the latest reset changes
\* nothing of the canonical graph when it settles.
StaleResultsDiscarded ==
    [][ \A c \in calls :
          (c \notin calls' /\ c.kind \in {"extract", "domain"} /\ c.sess < session)
          => graphData' = graphData ]_vars

\* C15: a reset cancels the queue: no extraction is started, and no id is
\* marked in flight, for an article of a feed that a reset has replaced.
ResetCancelsQueue ==
    [][ /\ \A c \in calls' :
             (c \notin calls /\ c.kind = "extract") => c.sess = session'
        /\ \A id \in processingIds' :
             id \notin processingIds => id[2] = session' ]_vars

-----------------------------------------------------------------------------
(* Properties of the export                                                *)

\* C19: export projection: the document holds one object per canonical node,
\* in order, with @id, @type and name the node's id, kind and label, and
\* beside these exactly one property per predicate of the node's outgoing
\* links, whose value is the target id of one of the links of that predicate.
ExportProjection ==
    exported # << >>
    => /\ Len(exported) = Len(graphData.nodes)
       /\ \A i \in 1..Len(graphData.nodes) :
             LET node  == graphData.nodes[i]
                 obj   == exported[i]
                 out   == {k \in 1..Len(graphData.links) :
                             graphData.links[k].source = node.id}
                 preds == {graphData.links[k].predicate : k \in out}
             IN  /\ DOMAIN obj = {"@id", "@type", "name"} \cup preds
                 /\ obj["@id"] = node.id
                 /\ obj["@type"] = node.type
                 /\ obj["name"] = node.label
                 /\ \A p \in preds :
                       \E k \in out : /\ graphData.links[k].predicate = p
                                      /\ graphData.links[k].target = obj[p]

\* C19, the case: the export has been made of a graph in which one node has
\* two links of the same predicate to different targets.
ExportedParallelLinks ==
    /\ exported # << >>
    /\ \E i, j \in 1..Len(graphData.links) :
          /\ graphData.links[i].source = graphData.links[j].source
          /\ graphData.links[i].predicate = graphData.links[j].predicate
          /\ graphData.links[i].target # graphData.links[j].target

-----------------------------------------------------------------------------
(* Properties of the handling of malformed responses                       *)

\* The response with every field that is not an array replaced by [].
WellFormed(data) == Response(NodesOf(data), LinksOf(data))

\* Every producer treats a field that is not an array as empty, and the merge
\* of a response with both fields malformed is the canonical graph unchanged.
MalformedTreatedAsEmpty ==
    \A data \in MalformedAnswers :
        /\ \A ctx \in Contexts :
              extractKnowledgeGraph(data, ctx)
                = extractKnowledgeGraph(WellFormed(data), ctx)
        /\ performShaclScan(data) = performShaclScan(WellFormed(data))
        /\ generateDomainOntology(data) = generateDomainOntology(WellFormed(data))
        /\ generateOntologyLayer(data) = generateOntologyLayer(WellFormed(data))
        /\ (~data.nodesIsArray /\ ~data.linksIsArray)
           => LET kg == extractKnowledgeGraph(data, StandardIds)
              IN  /\ ~hasChanges(graphData, kg.nodes, kg.links)
                  /\ mergeGraphData(graphData, kg.nodes, kg.links, << >>) = graphData

\* The last merge was that of a response whose nodes field is not an array:
\* it was offered no node and the one link of the response, which it stored.
MergedWithoutMalformedNodes ==
    /\ report.called /\ report.nodes = 0 /\ report.links = 1
    /\ report.hasChanges

\* C20: merge fails softly on malformed input: a field of a response that is
\* not a list is treated as empty, nothing is raised, and the canonical graph
\* is left consistent (every stored link has both endpoints among the stored
\* nodes) and is unchanged when both fields are malformed.
MalformedMergeConsistent ==
    /\ MalformedTreatedAsEmpty
    /\ MergedWithoutMalformedNodes
        => \A i \in 1..Len(graphData.links) :
              /\ graphData.links[i].source \in NodeIds(graphData.nodes)
              /\ graphData.links[i].target \in NodeIds(graphData.nodes)

-----------------------------------------------------------------------------
(* Properties of the layout's energy                                       *)

\* C21: partial reheat, never a full restart: a step that changes the
\* canonical graph leaves a mounted simulation running at the reheat level
\* 0.1, below the level 1.0 of a new simulation, and the simulation it leaves
\* is the one that was there before the step, not a new one.
PartialReheat ==
    [][graphData' # graphData
         => /\ AlphaReheat < AlphaFull
            /\ simulation'.mounted
                 => /\ simulation'.alpha = AlphaReheat
                    /\ simulation'.running
                    /\ simulation.mounted]_vars

-----------------------------------------------------------------------------
(* Properties of the order of the queue                                    *)

\* Where the entity of an article is stored in the canonical graph.
StoredAt(id) ==
    CHOOSE i \in 1..Len(graphData.nodes) : graphData.nodes[i].id = EntityOf(id).id

Merged(id) == EntityOf(id).id \in NodeIds(graphData.nodes)

\* C22: merge order: the fragments of one batch are merged in the order the
\* subjects were enqueued: when the fragments of two articles of one feed
\* have both been merged, the nodes of the earlier article were appended to
\* the canonical graph before the nodes of the later one.
MergedInBatchOrder ==
    \A a, b \in ArticleIds :
        (a[2] = b[2] /\ a[3] < b[3] /\ Merged(a) /\ Merged(b))
            => StoredAt(a) < StoredAt(b)

\* The step starts the article a queue waits for.
StartedNow(q) ==
    [kind |-> "extract", sess |-> q.sess, id |-> q.items[q.i], ctx |-> q.ctx]
        \in calls' \ calls

\* The call made for article k of the feed of a queue has not settled.
Pending(q, k) ==
    \E c \in ExtractCalls : c.sess = q.sess /\ c.id = q.items[k]

\* C23: pacing: the first article of a feed is started without a delay, every
\* later article is started only once the full delay of 2000 ms has passed,
\* and the delay lies between the processing of the previous article and the
\* start of the next: the previous article is no longer being processed when
\* the next is started.
Paced ==
    [][\A q \in queues :
          /\ q.i = 1 => q.wait = 0
          /\ StartedNow(q)
               => /\ q.wait = 0
                  /\ q.i > 1 => ~Pending(q, q.i - 1)]_vars

\* The part of C23 that is about the timers alone.
TimersPaced ==
    [][\A q \in queues :
          /\ q.i = 1 => q.wait = 0
          /\ q.i > 1 => q.wait \in {0, PacingDelay - TimeStep, PacingDelay}
          /\ StartedNow(q) => q.wait = 0
          /\ \A r \in queues' :
                (r.sess = q.sess /\ r.i = q.i + 1 /\ StartedNow(q))
                    => r.wait = PacingDelay]_vars

-----------------------------------------------------------------------------
(* Properties of re-offered nodes                                          *)

\* The links the step has added to the canonical graph.
AddedLinks == SeqRange(graphData'.links) \ SeqRange(graphData.links)

\* C24: a re-offered node is ignored entirely: no step adds to the canonical
\* graph an rdf:type link from a stored node to a kind other than the kind the
\* node is stored with, which is the link extractKnowledgeGraph synthesizes
\* from the fields of a node offered again with another kind.
ReofferedNodeIgnored ==
    [][graphData'.nodes = graphData.nodes
         => \A i \in 1..Len(graphData.nodes) : \A l \in AddedLinks :
               (l.source = graphData.nodes[i].id /\ l.predicate = "rdf:type"
                  /\ l.target \in InstanceKinds)
                  => l.target = graphData.nodes[i].type]_vars

-----------------------------------------------------------------------------
(* Properties of the ontology flag                                         *)

\* The id is that of a Class node of the canonical graph.
IsClassNode(id) ==
    \E i \in 1..Len(graphData.nodes) :
        graphData.nodes[i].id = id /\ graphData.nodes[i].type = "Class"

\* C25: isOntologyLink is derived for every accepted link: the flag of every
\* link of the canonical graph is true exactly when its predicate is rdf:type
\* or rdfs:subClassOf, or its source or its target is a Class node.
OntologyFlagDerived ==
    \A i \in 1..Len(graphData.links) :
        LET l == graphData.links[i]
        IN  l.isOntologyLink
              <=> \/ l.predicate = "rdf:type"
                  \/ l.predicate = "rdfs:subClassOf"
                  \/ IsClassNode(l.source)
                  \/ IsClassNode(l.target)

-----------------------------------------------------------------------------
(* Properties of the session reset                                         *)

\* C26: reset yields exactly the seed: the step in which loadIntel starts a
\* session leaves a canonical graph of exactly one Class node per instance
\* kind, with the kind's name as its id, and no links, and leaves the
\* in-flight set empty, whatever the graph held before.
ResetYieldsSeed ==
    [][session' # session
         => /\ Len(graphData'.nodes) = Cardinality(InstanceKinds)
            /\ \A k \in InstanceKinds :
                  \E i \in 1..Len(graphData'.nodes) :
                     /\ graphData'.nodes[i].id = k
                     /\ graphData'.nodes[i].type = "Class"
            /\ graphData'.links = << >>
            /\ processingIds' = {}]_vars

\* C26, the case: a second session has been started while an article of the
\* first was being analyzed; the graph is the seed, and the mark of the
\* article is gone although its call is still pending.
ResetWhileAnalyzing ==
    /\ session = MaxSessions
    /\ [kind |-> "domain", sess |-> MaxSessions] \in calls
    /\ \E c \in ExtractCalls : c.sess < session /\ c.id \notin processingIds
    /\ graphData = SeedGraph

-----------------------------------------------------------------------------
(* Properties of the dedup signature                                       *)

\* The (source id, target id, predicate) triple of a link.
TripleOf(l) == << l.source, l.target, l.predicate >>

TriplesOf(links) == {TripleOf(links[i]) : i \in 1..Len(links)}

\* C27: no false duplicates: a candidate link whose triple differs from the
\* triple of every stored link is added by the merge, for every batch the
\* producers can hand to mergeGraphData, ids with a '-' included.
NoFalseDuplicates ==
    \A b \in Fragments :
        \A rnd \in Rolls(graphData, b.nodes) :
            \A k \in 1..Len(b.links) :
                TripleOf(b.links[k]) \notin TriplesOf(graphData.links)
                    => TripleOf(b.links[k]) \in
                          TriplesOf(mergeGraphData(graphData, b.nodes,
                                                   b.links, rnd).links)

-----------------------------------------------------------------------------
(* Properties of the in-flight set                                         *)

\* C28: in-flight set accuracy: in every state the ids marked in flight are
\* the ids of the articles whose extractKnowledgeGraph call has been started
\* and has not settled.
InFlightAccurate == processingIds = {c.id : c \in ExtractCalls}

-----------------------------------------------------------------------------
(* Properties of the renders that carry no data                            *)

\* C29: energy is injected only by data changes and drags: a step that changes
\* searchTerm or the selected node and leaves the filtered node and link sets
\* as they are leaves the alpha of the simulation as it is and does not
\* restart a simulation that has stopped.
EnergyOnlyFromData ==
    [][(/\ searchTerm' # searchTerm \/ selectedNode' # selectedNode
        /\ simulation.mounted /\ simulation'.mounted
        /\ filteredNodes(graphData', showOntology', nodeTypeFilter')
             = filteredNodes(graphData, showOntology, nodeTypeFilter)
        /\ filteredLinks(graphData', showOntology', nodeTypeFilter')
             = filteredLinks(graphData, showOntology, nodeTypeFilter))
         => /\ simulation'.alpha = simulation.alpha
            /\ simulation'.running = simulation.running]_vars

-----------------------------------------------------------------------------
(* Properties of the submissions of the queue                              *)

\* The queue of a session is waiting on a timer.
Queued(s) == \E q \in queues : q.sess = s

\* C30: exactly-once submission: a queue starts at the first article of its
\* feed; its position moves only by one, and only in a step that submits the
\* article at its position; it ends only in the step that submits the last
\* article; a call of extractKnowledgeGraph is started only for the article a
\* queue is at, so no article is skipped, none is submitted twice, and the
\* order of submission is the order of the feed; the articles from the
\* position of a queue on have no call yet; and every queue ends, whatever the
\* earlier calls answered.
ExactlyOnce ==
    /\ [][/\ \A r \in queues' : ~Queued(r.sess) => r.i = 1
          /\ \A q \in queues :
                /\ \A r \in queues' :
                      r.sess = q.sess
                        => /\ r.items = q.items
                           /\ \/ r.i = q.i /\ ~StartedNow(q)
                              \/ r.i = q.i + 1 /\ StartedNow(q)
                /\ ~Queued(q.sess)' => (StartedNow(q) /\ q.i = Len(q.items))
          /\ \A c \in calls' \ calls :
                c.kind = "extract"
                  => \E q \in queues :
                        /\ StartedNow(q) /\ c.id = q.items[q.i]
                        /\ c.sess = q.sess
          /\ Cardinality({c \in calls' \ calls : c.kind = "extract"}) <= 1]_vars
    /\ [](\A q \in queues : \A k \in q.i..Len(q.items) : ~Pending(q, k))
    /\ \A s \in 1..MaxSessions : Queued(s) ~> ~Queued(s)

\* C30, the case: no reset has intervened, the extraction of the first article
\* of a feed of two has failed (the canonical graph is still the seed), and
\* the second article has been submitted all the same: the queue has ended and
\* the call of the second article is the one that is pending.
SubmittedAfterFailure ==
    /\ session = 1 /\ queues = {}
    /\ graphData = SeedGraph
    /\ {c.id : c \in ExtractCalls} = {Article(1, MaxQueue)}
    /\ MaxQueue > 1

====
